---- MODULE Spec2Model ----
(***************************************************************************)
(* Model of jerk-test (src/jerk-test/src/lib.rs): run_test, test_vm,       *)
(* test_thread_env, attach_current_thread and create_java_vm, together     *)
(* with the part of the JNI invocation interface these functions call.     *)
(*                                                                         *)
(* Every thread is a caller of the three public functions.  One action is  *)
(* one native call (or one access to a lazily initialised static) together *)
(* with the assertion or branch that follows it in the source, so that the *)
(* interleavings of threads around the one-time initialisation of VM and   *)
(* the thread-local ENV are all explored.  An assertion failure or unwrap  *)
(* of a missing value is a Rust panic: the call never returns and the      *)
(* thread makes no further call.  Nothing in the source catches a panic.   *)
(***************************************************************************)
EXTENDS Integers, Sequences, FiniteSets, TLC

(***************************************************************************)
(* Bounds of the model.                                                    *)
(***************************************************************************)
NumThreads == 2
MaxCalls == 2

Threads == 1..NumThreads

(***************************************************************************)
(* Constants of jni_sys used by the source.                                *)
(***************************************************************************)
null_mut == 0
JNI_OK == 0
JNI_ERR == 0 - 1
JNI_TRUE == 1
JNI_FALSE == 0

NotPresent == "NotPresent"

(***************************************************************************)
(* The caller's world: values the CLASSPATH environment variable may have  *)
(* and the (package, class, method) triples callers pass to run_test.      *)
(***************************************************************************)
ClasspathValues == {NotPresent, "tests.jar", "other.jar"}

TestIds ==
  { <<"com.example", "MathTests", "testAddition">>,
    <<"com.example", "MathTests", "testDivideByZero">>,
    <<"com.example", "MathTests", "testWithArg">>,
    <<"com.example", "MathTests", "testMissing">>,
    <<"com.example", "NoSuchTests", "testAddition">>,
    <<"org.a.b", "IoTests", "testOpen">> }

(***************************************************************************)
(* The Java side: the classes found on the class path "tests.jar" and      *)
(* their static methods.  A jclass / jmethodID handle is the index of the  *)
(* entry; null_mut is no entry.                                            *)
(***************************************************************************)
ClassTable == << "com/example/MathTests", "org/a/b/IoTests" >>

MethodTable ==
  << [class |-> 1, name |-> "testAddition",     sig |-> "()V",  throws |-> FALSE],
     [class |-> 1, name |-> "testDivideByZero", sig |-> "()V",  throws |-> TRUE],
     [class |-> 1, name |-> "testWithArg",      sig |-> "(I)V", throws |-> FALSE],
     [class |-> 2, name |-> "testOpen",         sig |-> "()V",  throws |-> FALSE] >>

(***************************************************************************)
(* String helpers, computed character by character as the source does.    *)
(***************************************************************************)
\* Mutant: only the first occurrence is replaced.
RECURSIVE replace_first(_, _, _)
replace_first(s, from, to) ==
  IF s = "" THEN ""
  ELSE IF SubSeq(s, 1, 1) = from THEN to \o SubSeq(s, 2, Len(s))
  ELSE SubSeq(s, 1, 1) \o replace_first(SubSeq(s, 2, Len(s)), from, to)

RECURSIVE replace(_, _, _)
replace(s, from, to) ==
  IF s = "" THEN ""
  ELSE (IF SubSeq(s, 1, 1) = from THEN to ELSE SubSeq(s, 1, 1))
         \o replace(SubSeq(s, 2, Len(s)), from, to)

\* format!("{}/{}\0", package.replace(".", "/"), class), as the C string the
\* callee reads (the bytes before the terminating NUL).
class_id_str(package, class) == replace(package, ".", "/") \o "/" \o class

\* format!("{}\0", method)
method_id_str(method) == method

\* format!("-Djava.class.path={}\0", CLASSPATH)
classpath_option(cp) == "-Djava.class.path=" \o cp

\* Mutant: the message names the method without its class.
threw_message_no_class(class, method) ==
  method \o "() threw a Java Exception"

\* format!("{}.{}() threw a Java Exception", class, method)
threw_message(class, method) ==
  class \o "." \o method \o "() threw a Java Exception"

null_env_message == "Couldn't initialize Java VM"

VARIABLES
  CLASSPATH,     \* the process environment variable, or NotPresent
  VM_once,       \* state of the lazy static VM: "incomplete", "running", "complete", "poisoned"
  VM,            \* the value of the lazy static VM (a JavaVM handle)
  jvm_options,   \* options the created Java VM was started with
  vms_created,   \* number of JNI_CreateJavaVM calls made by the process
  ENV_init,      \* per thread: whether the thread-local ENV is initialised
  ENV,           \* per thread: the value of the thread-local ENV
  attach_calls,  \* per thread: number of AttachCurrentThread calls made
  pending,       \* per thread: the JNIEnv has a pending Java exception
  pc,            \* per thread: position in the code
  op,            \* per thread: the public function the caller invoked
  args,          \* per thread: (package, class, method) of the run_test call
  env,           \* per thread: run_test's local env
  class_id,      \* per thread: run_test's local class_id (a jclass)
  method_id,     \* per thread: run_test's local method_id (a jmethodID)
  raised,        \* per thread: the method invoked by this call threw
  trace,         \* per thread: native calls run_test issued in this call
  env_seen,      \* per thread: environment handles the thread's calls observed
  vm_seen,       \* per thread: VM handles the thread's calls observed
  status,        \* per thread: status of the last JNI set-up function called
  ret,           \* per thread: what the thread's last completed call returned
  panic,         \* per thread: the panic that ended the thread, or "none"
  calls          \* number of calls of public functions started

vars == << CLASSPATH, VM_once, VM, jvm_options, vms_created, ENV_init, ENV,
           attach_calls, pending, pc, op, args, env, class_id,
           method_id, raised, trace, env_seen, vm_seen, status, ret, panic,
           calls >>

jvm_vars == << jvm_options, vms_created >>
lazy_vars == << VM_once, VM >>
tls_vars == << ENV_init, ENV, attach_calls >>
local_vars == << env, class_id, method_id, raised, trace >>

NoArgs == << "", "", "" >>
NoRet == [op |-> "none", kind |-> "none", value |-> null_mut, message |-> ""]

Init ==
  /\ CLASSPATH \in ClasspathValues
  /\ VM_once = "incomplete"
  /\ VM = null_mut
  /\ jvm_options = << >>
  /\ vms_created = 0
  /\ ENV_init = [t \in Threads |-> FALSE]
  /\ ENV = [t \in Threads |-> null_mut]
  /\ attach_calls = [t \in Threads |-> 0]
  /\ pending = [t \in Threads |-> FALSE]
  /\ pc = [t \in Threads |-> "idle"]
  /\ op = [t \in Threads |-> "none"]
  /\ args = [t \in Threads |-> NoArgs]
  /\ env = [t \in Threads |-> null_mut]
  /\ class_id = [t \in Threads |-> null_mut]
  /\ method_id = [t \in Threads |-> null_mut]
  /\ raised = [t \in Threads |-> FALSE]
  /\ trace = [t \in Threads |-> << >>]
  /\ env_seen = [t \in Threads |-> {}]
  /\ vm_seen = [t \in Threads |-> {}]
  /\ status = [t \in Threads |-> JNI_OK]
  /\ ret = [t \in Threads |-> NoRet]
  /\ panic = [t \in Threads |-> "none"]
  /\ calls = 0

(***************************************************************************)
(* The JNI functions the source calls, as far as their results matter.     *)
(***************************************************************************)
JavaVMHandle == 1
JNIEnvHandle(t) == t

\* (**env).FindClass: the jclass of the named class, or null (and a pending
\* NoClassDefFoundError) when the class path of the VM does not hold it.
FindClass(options, name) ==
  IF /\ classpath_option("tests.jar") \in {options[i] : i \in DOMAIN options}
     /\ \E i \in DOMAIN ClassTable : ClassTable[i] = name
  THEN CHOOSE i \in DOMAIN ClassTable : ClassTable[i] = name
  ELSE null_mut

\* (**env).GetStaticMethodID: the jmethodID of the static method of that
\* name and signature, or null (and a pending NoSuchMethodError).
GetStaticMethodID(cls, name, sig) ==
  LET found == { i \in DOMAIN MethodTable :
                   /\ MethodTable[i].class = cls
                   /\ MethodTable[i].name = name
                   /\ MethodTable[i].sig = sig }
  IN IF found = {} THEN null_mut ELSE CHOOSE i \in found : TRUE

\* Whether the Java method behind a jmethodID throws when it is run.
Throws(m) == m \in DOMAIN MethodTable /\ MethodTable[m].throws

(***************************************************************************)
(* Ways a step of a call ends.                                             *)
(***************************************************************************)
\* panic!: unwinds out of the public function; the thread is finished.
Panic(t, cause) ==
  /\ pc' = [pc EXCEPT ![t] = "panicked"]
  /\ panic' = [panic EXCEPT ![t] = cause]
  /\ ret' = ret

\* The public function returns to its caller.
Return(t, kind, value, message) ==
  /\ pc' = [pc EXCEPT ![t] = "idle"]
  /\ ret' = [ret EXCEPT ![t] = [op |-> op[t], kind |-> kind,
                                value |-> value, message |-> message]]
  /\ panic' = panic

Goto(t, label) ==
  /\ pc' = [pc EXCEPT ![t] = label]
  /\ ret' = ret
  /\ panic' = panic

\* test_vm() has produced v: it is the result of a direct call, or the
\* local vm of attach_current_thread.
got_vm(t, v) ==
  /\ vm_seen' = [vm_seen EXCEPT ![t] = @ \cup {v}]
  /\ IF op[t] = "test_vm"
     THEN Return(t, "handle", v, "")
     ELSE Goto(t, "attach")

\* test_thread_env() has produced e: it is the result of a direct call, or
\* the local env of run_test.
got_env(t, e) ==
  /\ env_seen' = [env_seen EXCEPT ![t] = @ \cup {e}]
  /\ IF op[t] = "test_thread_env"
     THEN /\ Return(t, "handle", e, "")
          /\ env' = env
     ELSE /\ Goto(t, "null_check")
          /\ env' = [env EXCEPT ![t] = e]

(***************************************************************************)
(* A caller invokes one of the three public functions.                     *)
(***************************************************************************)
Enter(t, name, a, label) ==
  /\ pc[t] = "idle"
  /\ calls < MaxCalls
  /\ calls' = calls + 1
  /\ op' = [op EXCEPT ![t] = name]
  /\ args' = [args EXCEPT ![t] = a]
  /\ env' = [env EXCEPT ![t] = null_mut]
  /\ class_id' = [class_id EXCEPT ![t] = null_mut]
  /\ method_id' = [method_id EXCEPT ![t] = null_mut]
  /\ raised' = [raised EXCEPT ![t] = FALSE]
  /\ trace' = [trace EXCEPT ![t] = << >>]
  /\ status' = [status EXCEPT ![t] = JNI_OK]
  /\ pc' = [pc EXCEPT ![t] = label]
  /\ UNCHANGED << CLASSPATH, lazy_vars, jvm_vars, tls_vars, pending,
                  env_seen, vm_seen, ret, panic >>

call_run_test(t) ==
  /\ pc[t] = "idle"
  /\ \E a \in TestIds : Enter(t, "run_test", a, "ENV_with")

call_test_thread_env(t) ==
  /\ pc[t] = "idle"
  /\ Enter(t, "test_thread_env", NoArgs, "ENV_with")

call_test_vm(t) ==
  /\ pc[t] = "idle"
  /\ Enter(t, "test_vm", NoArgs, "VM_deref")

\* Mutant: the environment is not cached; every call attaches again.
test_thread_env_uncached(t) ==
  /\ pc[t] = "ENV_with"
  /\ Goto(t, "VM_deref")
  /\ UNCHANGED << CLASSPATH, lazy_vars, jvm_vars, tls_vars, pending, op, args,
                  local_vars, env_seen, vm_seen, calls, status >>

(***************************************************************************)
(* test_thread_env: ENV.with(|e| *e).  An initialised thread-local is      *)
(* read; an uninitialised one runs attach_current_thread, whose first      *)
(* statement is test_vm().                                                 *)
(***************************************************************************)
test_thread_env(t) ==
  /\ pc[t] = "ENV_with"
  /\ IF ENV_init[t]
     THEN got_env(t, ENV[t])
     ELSE /\ Goto(t, "VM_deref")
          /\ UNCHANGED << env, env_seen >>
  /\ UNCHANGED << CLASSPATH, lazy_vars, jvm_vars, tls_vars, pending, op, args,
                  class_id, method_id, raised, trace, vm_seen, calls, status >>

\* Mutant: check-then-create without a Once; a thread that arrives while
\* another thread creates the VM creates one as well.
test_vm_racy(t) ==
  /\ pc[t] = "VM_deref"
  /\ CASE VM_once = "complete" ->
            /\ got_vm(t, VM)
            /\ UNCHANGED lazy_vars
       [] VM_once \in {"incomplete", "running"} ->
            /\ VM_once' = "running"
            /\ VM' = VM
            /\ Goto(t, "create_classpath")
            /\ vm_seen' = vm_seen
       [] VM_once = "poisoned" ->
            /\ Panic(t, "Once poisoned")
            /\ UNCHANGED lazy_vars
            /\ vm_seen' = vm_seen
  /\ UNCHANGED << CLASSPATH, jvm_vars, tls_vars, pending, op, args, local_vars,
                  env_seen, calls, status >>

\* Mutant: a thread that arrives while another thread creates the VM does
\* not wait and reads the handle as it is.
test_vm_no_wait(t) ==
  /\ pc[t] = "VM_deref"
  /\ CASE VM_once \in {"complete", "running"} ->
            /\ got_vm(t, VM)
            /\ UNCHANGED lazy_vars
       [] VM_once = "incomplete" ->
            /\ VM_once' = "running"
            /\ VM' = VM
            /\ Goto(t, "create_classpath")
            /\ vm_seen' = vm_seen
       [] VM_once = "poisoned" ->
            /\ Panic(t, "Once poisoned")
            /\ UNCHANGED lazy_vars
            /\ vm_seen' = vm_seen
  /\ UNCHANGED << CLASSPATH, jvm_vars, tls_vars, pending, op, args, local_vars,
                  env_seen, calls, status >>

(***************************************************************************)
(* test_vm: **VM.  lazy_static runs create_java_vm under a Once: the first *)
(* thread to arrive runs it, a thread arriving while it runs waits, and a  *)
(* thread arriving after it panicked panics as well (the Once is           *)
(* poisoned).                                                              *)
(***************************************************************************)
test_vm(t) ==
  /\ pc[t] = "VM_deref"
  /\ VM_once # "running"
  /\ CASE VM_once = "complete" ->
            /\ got_vm(t, VM)
            /\ UNCHANGED lazy_vars
       [] VM_once = "incomplete" ->
            /\ VM_once' = "running"
            /\ VM' = VM
            /\ Goto(t, "create_classpath")
            /\ vm_seen' = vm_seen
       [] VM_once = "poisoned" ->
            /\ Panic(t, "Once poisoned")
            /\ UNCHANGED lazy_vars
            /\ vm_seen' = vm_seen
  /\ UNCHANGED << CLASSPATH, jvm_vars, tls_vars, pending, op, args, local_vars,
                  env_seen, calls, status >>

(***************************************************************************)
(* create_java_vm, run by the thread that initialises VM.                  *)
(***************************************************************************)
\* std::env::var("CLASSPATH").unwrap()
create_java_vm_classpath(t) ==
  /\ pc[t] = "create_classpath"
  /\ IF CLASSPATH = NotPresent
     THEN /\ Panic(t, "CLASSPATH")
          /\ VM_once' = "poisoned"
     ELSE /\ Goto(t, "create_initargs")
          /\ VM_once' = VM_once
  /\ UNCHANGED << CLASSPATH, VM, jvm_vars, tls_vars, pending, op, args,
                  local_vars, env_seen, vm_seen, calls, status >>

\* assert_eq!(JNI_OK, JNI_GetDefaultJavaVMInitArgs(..))
create_java_vm_init_args(t) ==
  /\ pc[t] = "create_initargs"
  /\ \E st \in {JNI_OK, JNI_ERR} :
       /\ status' = [status EXCEPT ![t] = st]
       /\ IF st = JNI_OK
          THEN /\ Goto(t, "create_vm")
               /\ VM_once' = VM_once
          ELSE /\ Panic(t, "JNI_GetDefaultJavaVMInitArgs")
               /\ VM_once' = "poisoned"
  /\ UNCHANGED << CLASSPATH, VM, jvm_vars, tls_vars, pending, op, args,
                  local_vars, env_seen, vm_seen, calls >>

\* assert_eq!(JNI_OK, JNI_CreateJavaVM(&mut vm, ..)); vm
\* Returning vm completes the Once and publishes the handle.
create_java_vm(t) ==
  /\ pc[t] = "create_vm"
  /\ vms_created' = vms_created + 1
  /\ \E st \in {JNI_OK, JNI_ERR} :
       /\ status' = [status EXCEPT ![t] = st]
       /\ IF st = JNI_OK
          THEN /\ jvm_options' = << "-ea", "-esa", classpath_option(CLASSPATH) >>
               /\ VM' = JavaVMHandle
               /\ VM_once' = "complete"
               /\ got_vm(t, JavaVMHandle)
          ELSE /\ Panic(t, "JNI_CreateJavaVM")
               /\ VM_once' = "poisoned"
               /\ UNCHANGED << jvm_options, VM, vm_seen >>
  /\ UNCHANGED << CLASSPATH, tls_vars, pending, op, args, local_vars,
                  env_seen, calls >>

\* Mutant: the status of AttachCurrentThread is not asserted.
attach_current_thread_unchecked(t) ==
  /\ pc[t] = "attach"
  /\ attach_calls' = [attach_calls EXCEPT ![t] = @ + 1]
  /\ \E out \in { << JNI_OK, JNIEnvHandle(t) >>, << JNI_OK, null_mut >>,
                  << JNI_ERR, null_mut >> } :
       /\ status' = [status EXCEPT ![t] = out[1]]
       /\ ENV_init' = [ENV_init EXCEPT ![t] = TRUE]
       /\ ENV' = [ENV EXCEPT ![t] = out[2]]
       /\ got_env(t, out[2])
  /\ UNCHANGED << CLASSPATH, lazy_vars, jvm_vars, pending, op, args,
                  class_id, method_id, raised, trace, vm_seen, calls >>

(***************************************************************************)
(* attach_current_thread, after test_vm() returned:                        *)
(*   assert_eq!(JNI_OK, AttachCurrentThread(vm, &mut env, null)); env      *)
(* Returning env initialises the thread-local ENV.  The source does not    *)
(* take a JNI_OK status to mean that env was written: run_test checks env  *)
(* against null itself, so the call may leave env null with either status. *)
(***************************************************************************)
attach_current_thread(t) ==
  /\ pc[t] = "attach"
  /\ attach_calls' = [attach_calls EXCEPT ![t] = @ + 1]
  /\ \E out \in { << JNI_OK, JNIEnvHandle(t) >>, << JNI_OK, null_mut >>,
                  << JNI_ERR, null_mut >> } :
       /\ status' = [status EXCEPT ![t] = out[1]]
       /\ IF out[1] = JNI_OK
          THEN /\ ENV_init' = [ENV_init EXCEPT ![t] = TRUE]
               /\ ENV' = [ENV EXCEPT ![t] = out[2]]
               /\ got_env(t, out[2])
          ELSE /\ Panic(t, "AttachCurrentThread")
               /\ UNCHANGED << ENV_init, ENV, env, env_seen >>
  /\ UNCHANGED << CLASSPATH, lazy_vars, jvm_vars, pending, op, args,
                  class_id, method_id, raised, trace, vm_seen, calls >>

(***************************************************************************)
(* run_test, after `let env = test_thread_env();`.                         *)
(***************************************************************************)
\* if env == null_mut() { return Err("Couldn't initialize Java VM".into()); }
run_test_null_check(t) ==
  /\ pc[t] = "null_check"
  /\ IF env[t] = null_mut
     THEN Return(t, "Err", null_mut, null_env_message)
     ELSE Goto(t, "FindClass")
  /\ UNCHANGED << CLASSPATH, lazy_vars, jvm_vars, tls_vars, pending, op, args,
                  local_vars, env_seen, vm_seen, calls, status >>

\* Mutant: the result of FindClass is not asserted.
run_test_FindClass_unchecked(t) ==
  /\ pc[t] = "FindClass"
  /\ LET c == FindClass(jvm_options, class_id_str(args[t][1], args[t][2]))
     IN /\ trace' = [trace EXCEPT ![t] = Append(@, "FindClass")]
        /\ class_id' = [class_id EXCEPT ![t] = c]
        /\ pending' = [pending EXCEPT ![t] = @ \/ c = null_mut]
        /\ Goto(t, "GetStaticMethodID")
  /\ UNCHANGED << CLASSPATH, lazy_vars, jvm_vars, tls_vars, op, args, env,
                  method_id, raised, env_seen, vm_seen, calls, status >>

\* let class_id = FindClass(env, class_id); assert_ne!(class_id, null_mut(), ..)
run_test_FindClass(t) ==
  /\ pc[t] = "FindClass"
  /\ LET c == FindClass(jvm_options, class_id_str(args[t][1], args[t][2]))
     IN /\ trace' = [trace EXCEPT ![t] = Append(@, "FindClass")]
        /\ class_id' = [class_id EXCEPT ![t] = c]
        /\ IF c = null_mut
           THEN /\ pending' = [pending EXCEPT ![t] = TRUE]
                /\ Panic(t, "Failed to FindClass")
           ELSE /\ pending' = pending
                /\ Goto(t, "GetStaticMethodID")
  /\ UNCHANGED << CLASSPATH, lazy_vars, jvm_vars, tls_vars, op, args, env,
                  method_id, raised, env_seen, vm_seen, calls, status >>

\* Mutant: the result of GetStaticMethodID is not asserted.
run_test_GetStaticMethodID_unchecked(t) ==
  /\ pc[t] = "GetStaticMethodID"
  /\ LET m == GetStaticMethodID(class_id[t], method_id_str(args[t][3]), "()V")
     IN /\ trace' = [trace EXCEPT ![t] = Append(@, "GetStaticMethodID")]
        /\ method_id' = [method_id EXCEPT ![t] = m]
        /\ pending' = [pending EXCEPT ![t] = @ \/ m = null_mut]
        /\ Goto(t, "CallStaticVoidMethodA")
  /\ UNCHANGED << CLASSPATH, lazy_vars, jvm_vars, tls_vars, op, args, env,
                  class_id, raised, env_seen, vm_seen, calls, status >>

\* let method_id = GetStaticMethodID(env, class_id, method_id, "()V");
\* assert_ne!(method_id, null_mut(), ..)
run_test_GetStaticMethodID(t) ==
  /\ pc[t] = "GetStaticMethodID"
  /\ LET m == GetStaticMethodID(class_id[t], method_id_str(args[t][3]), "()V")
     IN /\ trace' = [trace EXCEPT ![t] = Append(@, "GetStaticMethodID")]
        /\ method_id' = [method_id EXCEPT ![t] = m]
        /\ IF m = null_mut
           THEN /\ pending' = [pending EXCEPT ![t] = TRUE]
                /\ Panic(t, "Failed to GetStaticMethodID")
           ELSE /\ pending' = pending
                /\ Goto(t, "CallStaticVoidMethodA")
  /\ UNCHANGED << CLASSPATH, lazy_vars, jvm_vars, tls_vars, op, args, env,
                  class_id, raised, env_seen, vm_seen, calls, status >>

\* CallStaticVoidMethodA(env, class_id, method_id, [].as_ptr()): the Java
\* method runs; an exception it throws is left pending in the environment.
run_test_CallStaticVoidMethodA(t) ==
  /\ pc[t] = "CallStaticVoidMethodA"
  /\ trace' = [trace EXCEPT ![t] = Append(@, "CallStaticVoidMethodA")]
  /\ raised' = [raised EXCEPT ![t] = Throws(method_id[t])]
  /\ pending' = [pending EXCEPT ![t] = @ \/ Throws(method_id[t])]
  /\ Goto(t, "ExceptionCheck")
  /\ UNCHANGED << CLASSPATH, lazy_vars, jvm_vars, tls_vars, op, args, env,
                  class_id, method_id, env_seen, vm_seen, calls, status >>

\* Mutant: the branches of the exception check are swapped.
run_test_ExceptionCheck_inverted(t) ==
  /\ pc[t] = "ExceptionCheck"
  /\ trace' = [trace EXCEPT ![t] = Append(@, "ExceptionCheck")]
  /\ IF (IF pending[t] THEN JNI_TRUE ELSE JNI_FALSE) = JNI_TRUE
     THEN Return(t, "Ok", null_mut, "")
     ELSE Goto(t, "ExceptionDescribe")
  /\ UNCHANGED << CLASSPATH, lazy_vars, jvm_vars, tls_vars, pending, op, args,
                  env, class_id, method_id, raised, env_seen, vm_seen, calls, status >>

\* if ExceptionCheck(env) == JNI_TRUE { .. } else { Ok(()) }
run_test_ExceptionCheck(t) ==
  /\ pc[t] = "ExceptionCheck"
  /\ trace' = [trace EXCEPT ![t] = Append(@, "ExceptionCheck")]
  /\ IF (IF pending[t] THEN JNI_TRUE ELSE JNI_FALSE) = JNI_TRUE
     THEN Goto(t, "ExceptionDescribe")
     ELSE Return(t, "Ok", null_mut, "")
  /\ UNCHANGED << CLASSPATH, lazy_vars, jvm_vars, tls_vars, pending, op, args,
                  env, class_id, method_id, raised, env_seen, vm_seen, calls, status >>

\* Mutant: the error is returned without printing and clearing the
\* pending exception.
run_test_ExceptionDescribe_skipped(t) ==
  /\ pc[t] = "ExceptionDescribe"
  /\ Return(t, "Err", null_mut, threw_message(args[t][2], args[t][3]))
  /\ UNCHANGED << CLASSPATH, lazy_vars, jvm_vars, tls_vars, pending, op, args,
                  env, class_id, method_id, raised, trace, env_seen, vm_seen,
                  calls, status >>

\* ExceptionDescribe(env): prints the pending exception; JNI clears the
\* pending exception as a side effect of printing it.
run_test_ExceptionDescribe(t) ==
  /\ pc[t] = "ExceptionDescribe"
  /\ trace' = [trace EXCEPT ![t] = Append(@, "ExceptionDescribe")]
  /\ pending' = [pending EXCEPT ![t] = FALSE]
  /\ Goto(t, "ExceptionClear")
  /\ UNCHANGED << CLASSPATH, lazy_vars, jvm_vars, tls_vars, op, args, env,
                  class_id, method_id, raised, env_seen, vm_seen, calls, status >>

\* ExceptionClear(env);
\* Err(format!("{}.{}() threw a Java Exception", class, method).into())
run_test_ExceptionClear(t) ==
  /\ pc[t] = "ExceptionClear"
  /\ trace' = [trace EXCEPT ![t] = Append(@, "ExceptionClear")]
  /\ pending' = [pending EXCEPT ![t] = FALSE]
  /\ Return(t, "Err", null_mut, threw_message(args[t][2], args[t][3]))
  /\ UNCHANGED << CLASSPATH, lazy_vars, jvm_vars, tls_vars, op, args, env,
                  class_id, method_id, raised, env_seen, vm_seen, calls, status >>

Next ==
  \E t \in Threads :
    \/ call_run_test(t)
    \/ call_test_thread_env(t)
    \/ call_test_vm(t)
    \/ test_thread_env(t)
    \/ test_vm(t)
    \/ create_java_vm_classpath(t)
    \/ create_java_vm_init_args(t)
    \/ create_java_vm(t)
    \/ attach_current_thread(t)
    \/ run_test_null_check(t)
    \/ run_test_FindClass(t)
    \/ run_test_GetStaticMethodID(t)
    \/ run_test_CallStaticVoidMethodA(t)
    \/ run_test_ExceptionCheck(t)
    \/ run_test_ExceptionDescribe(t)
    \/ run_test_ExceptionClear(t)

Spec == Init /\ [][Next]_vars

(***************************************************************************)
(* Vocabulary of the properties.                                           *)
(***************************************************************************)
NativeOrder ==
  << "FindClass", "GetStaticMethodID", "CallStaticVoidMethodA",
     "ExceptionCheck", "ExceptionDescribe", "ExceptionClear" >>

IsPrefix(s, q) == Len(s) <= Len(q) /\ SubSeq(q, 1, Len(s)) = s

Occurrences(s, x) == Cardinality({ i \in DOMAIN s : s[i] = x })

\* The current (or last) call of thread t invoked the target method.
Invoked(t) == Occurrences(trace[t], "CallStaticVoidMethodA") > 0

\* Thread t's last call was run_test and it has returned to its caller.
ReturnedFromRunTest(t) == pc[t] = "idle" /\ ret[t].op = "run_test"

\* Thread t is in (or has returned from) a run_test call that got a
\* non-null environment handle from test_thread_env.
RunTestWithEnv(t) == op[t] = "run_test" /\ env[t] # null_mut

\* The triples of TestIds that name an existing static ()V method on the
\* class path "tests.jar": those that return normally, and the one that throws.
PassingTests ==
  { <<"com.example", "MathTests", "testAddition">>,
    <<"org.a.b", "IoTests", "testOpen">> }

ThrowingTest == <<"com.example", "MathTests", "testDivideByZero">>

SetupPanics ==
  { "CLASSPATH", "JNI_GetDefaultJavaVMInitArgs", "JNI_CreateJavaVM",
    "Once poisoned", "AttachCurrentThread" }

LookupPanics == { "Failed to FindClass", "Failed to GetStaticMethodID" }

CreatePcs == { "create_classpath", "create_initargs", "create_vm" }

(***************************************************************************)
(* C1: a run_test call whose triple resolves to an existing static void    *)
(* no-argument method that returns normally returns Ok, and on return the  *)
(* thread's environment has no pending exception.  Stated twice: for every *)
(* call that invoked a method which did not throw, and for the triples     *)
(* known to exist (such a call never panics and was invoked).              *)
(***************************************************************************)
C1_NormalReturnIsOk ==
  \A t \in Threads :
    /\ (ReturnedFromRunTest(t) /\ Invoked(t) /\ ~raised[t])
         => (ret[t].kind = "Ok" /\ ~pending[t])
    /\ (RunTestWithEnv(t) /\ CLASSPATH = "tests.jar" /\ args[t] \in PassingTests)
         => /\ pc[t] # "panicked"
            /\ pc[t] = "idle" =>
                 (ret[t].kind = "Ok" /\ ~pending[t] /\ Invoked(t) /\ ~raised[t])

C1_Witness ==
  \E t \in Threads :
    /\ ReturnedFromRunTest(t)
    /\ args[t] = <<"org.a.b", "IoTests", "testOpen">>
    /\ ret[t].kind = "Ok"
    /\ ~pending[t]

(***************************************************************************)
(* C2: a run_test call whose method raises a Java exception returns Err    *)
(* with the message "<class>.<method>() threw a Java Exception"; the       *)
(* exception is printed (ExceptionDescribe) and then cleared               *)
(* (ExceptionClear), and on return the environment has no pending          *)
(* exception.                                                              *)
(***************************************************************************)
C2_ThrownExceptionIsErr ==
  \A t \in Threads :
    /\ (ReturnedFromRunTest(t) /\ raised[t])
         => /\ ret[t].kind = "Err"
            /\ ret[t].message
                 = args[t][2] \o "." \o args[t][3] \o "() threw a Java Exception"
            /\ trace[t] = NativeOrder
            /\ ~pending[t]
    /\ (RunTestWithEnv(t) /\ CLASSPATH = "tests.jar" /\ args[t] = ThrowingTest)
         => /\ pc[t] # "panicked"
            /\ pc[t] = "idle" =>
                 /\ raised[t]
                 /\ ret[t].kind = "Err"
                 /\ ret[t].message
                      = "MathTests.testDivideByZero() threw a Java Exception"

C2_Witness ==
  \E t \in Threads :
    /\ ReturnedFromRunTest(t)
    /\ args[t] = ThrowingTest
    /\ ret[t].kind = "Err"
    /\ raised[t]
    /\ ~pending[t]

(***************************************************************************)
(* C3: in every interleaving JNI_CreateJavaVM is called at most once, not  *)
(* before some thread has accessed VM, exactly once when any call has      *)
(* obtained the handle, and every call on every thread obtains the same    *)
(* non-null handle.                                                        *)
(***************************************************************************)
C3_VmCreatedOnce ==
  /\ vms_created <= 1
  /\ (calls = 0 \/ VM_once = "incomplete") => (vms_created = 0 /\ VM = null_mut)
  /\ \A t \in Threads :
       /\ vm_seen[t] # {} =>
            (vms_created = 1 /\ VM # null_mut /\ vm_seen[t] = {VM})
       /\ (ret[t].op = "test_vm" /\ ret[t].kind = "handle") =>
            (ret[t].value = VM /\ VM # null_mut /\ vms_created = 1)
  /\ \A t, u \in Threads :
       (vm_seen[t] # {} /\ vm_seen[u] # {}) => vm_seen[t] = vm_seen[u]

C3_Witness ==
  \E t, u \in Threads :
    /\ t # u
    /\ vm_seen[t] = {JavaVMHandle}
    /\ vm_seen[u] = {JavaVMHandle}
    /\ ret[u].op = "test_vm"
    /\ vms_created = 1

(***************************************************************************)
(* C4: on one thread AttachCurrentThread is called at most once over any   *)
(* sequence of run_test and test_thread_env calls, and every call on the   *)
(* thread observes the same environment handle, the thread-local ENV.      *)
(***************************************************************************)
C4_AttachOncePerThread ==
  \A t \in Threads :
    /\ attach_calls[t] <= 1
    /\ Cardinality(env_seen[t]) <= 1
    /\ env_seen[t] # {} => (ENV_init[t] /\ env_seen[t] = {ENV[t]})
    /\ (ret[t].op = "test_thread_env" /\ ret[t].kind = "handle") =>
         ret[t].value = ENV[t]

C4_Witness ==
  \E t \in Threads :
    /\ ret[t].op \in {"run_test", "test_thread_env"}
    /\ op[t] = "run_test"
    /\ pc[t] = "FindClass"
    /\ env[t] = JNIEnvHandle(t)
    /\ attach_calls[t] = 1

(***************************************************************************)
(* C5: when FindClass returns null or GetStaticMethodID returns null the   *)
(* call ends in a panic at that step; such a call returns neither Ok nor   *)
(* Err and does not invoke anything.                                       *)
(***************************************************************************)
C5_LookupFailureIsFatal ==
  \A t \in Threads :
    /\ (Len(trace[t]) >= 1 /\ class_id[t] = null_mut)
         => /\ pc[t] = "panicked"
            /\ panic[t] = "Failed to FindClass"
            /\ trace[t] = << "FindClass" >>
    /\ (Len(trace[t]) >= 2 /\ method_id[t] = null_mut)
         => /\ pc[t] = "panicked"
            /\ panic[t] = "Failed to GetStaticMethodID"
            /\ trace[t] = << "FindClass", "GetStaticMethodID" >>
    /\ ( /\ RunTestWithEnv(t)
         /\ \/ CLASSPATH # "tests.jar"
            \/ args[t] \notin (PassingTests \cup {ThrowingTest}) )
         => (pc[t] # "idle" /\ ~Invoked(t))

C5_Witness ==
  \E t, u \in Threads :
    /\ pc[t] = "panicked"
    /\ panic[t] = "Failed to FindClass"
    /\ args[t] = <<"com.example", "NoSuchTests", "testAddition">>
    /\ pc[u] = "panicked"
    /\ panic[u] = "Failed to GetStaticMethodID"
    /\ args[u][3] \in {"testWithArg", "testMissing"}

(***************************************************************************)
(* C6, as claimed: run_test returns Err only when the target method was    *)
(* invoked and left a pending exception; a null environment handle is a    *)
(* fatal assertion.                                                        *)
(***************************************************************************)
C6_ErrOnlyAfterInvocation ==
  \A t \in Threads :
    (ReturnedFromRunTest(t) /\ ret[t].kind = "Err") => (Invoked(t) /\ raised[t])

(***************************************************************************)
(* C6, amended: run_test returns Err only when the target method was       *)
(* invoked and left a pending exception, or when the environment handle of *)
(* the calling thread is null, which is reported as the error "Couldn't    *)
(* initialize Java VM" before any lookup; every other failure before the   *)
(* invocation is a panic, and a call that returns without having invoked   *)
(* the method is the null-handle case.                                     *)
(***************************************************************************)
C6_ErrOnlyAfterInvocationOrNullEnv ==
  \A t \in Threads :
    /\ (ReturnedFromRunTest(t) /\ ret[t].kind = "Err")
         => \/ /\ Invoked(t)
               /\ raised[t]
               /\ env[t] # null_mut
               /\ ret[t].message # "Couldn't initialize Java VM"
            \/ /\ env[t] = null_mut
               /\ trace[t] = << >>
               /\ ret[t].message = "Couldn't initialize Java VM"
    /\ (ReturnedFromRunTest(t) /\ ~Invoked(t))
         => (ret[t].kind = "Err" /\ env[t] = null_mut)
    /\ (op[t] = "run_test" /\ pc[t] = "panicked")
         => (~Invoked(t) /\ panic[t] \in SetupPanics \cup LookupPanics)

C6_Witness ==
  \E t \in Threads :
    /\ ReturnedFromRunTest(t)
    /\ ret[t].kind = "Err"
    /\ ret[t].message = "Couldn't initialize Java VM"
    /\ ENV_init[t]
    /\ env[t] = null_mut

(***************************************************************************)
(* C7: the native calls of one run_test call are a prefix of FindClass,    *)
(* GetStaticMethodID, CallStaticVoidMethodA, ExceptionCheck,               *)
(* ExceptionDescribe, ExceptionClear; the method is invoked at most once   *)
(* per call and only with a resolved class and a resolved method.          *)
(***************************************************************************)
C7_NativeStepOrder ==
  \A t \in Threads :
    /\ IsPrefix(trace[t], NativeOrder)
    /\ Occurrences(trace[t], "CallStaticVoidMethodA") <= 1
    /\ Invoked(t) => (class_id[t] # null_mut /\ method_id[t] # null_mut)
    /\ pc[t] = "CallStaticVoidMethodA" =>
         (class_id[t] # null_mut /\ method_id[t] # null_mut)
    /\ panic[t] \in LookupPanics => ~Invoked(t)

C7_Witness ==
  \E t, u \in Threads :
    /\ trace[t] = NativeOrder
    /\ panic[u] = "Failed to GetStaticMethodID"
    /\ trace[u] = << "FindClass", "GetStaticMethodID" >>

(***************************************************************************)
(* C8: a missing CLASSPATH, a non-success status of                        *)
(* JNI_GetDefaultJavaVMInitArgs, JNI_CreateJavaVM or AttachCurrentThread   *)
(* is a panic of the call that met it: that attempt publishes no VM and no *)
(* environment handle, and the call returns nothing and looks up no class. *)
(* After a failed creation no call of any thread ever returns.             *)
(***************************************************************************)
C8_SetupFailureIsFatal ==
  /\ CLASSPATH = NotPresent =>
       (VM = null_mut /\ VM_once # "complete" /\ vms_created = 0)
  /\ VM_once = "poisoned" =>
       /\ VM = null_mut
       /\ \A t \in Threads :
            /\ ~ENV_init[t]
            /\ ret[t] = NoRet
            /\ trace[t] = << >>
            /\ vm_seen[t] = {}
            /\ env_seen[t] = {}
  /\ \A t \in Threads :
       /\ status[t] # JNI_OK =>
            /\ pc[t] = "panicked"
            /\ panic[t] \in SetupPanics
       /\ panic[t] \in {"CLASSPATH", "JNI_GetDefaultJavaVMInitArgs",
                        "JNI_CreateJavaVM"} => VM_once = "poisoned"
       /\ panic[t] \in SetupPanics =>
            /\ pc[t] = "panicked"
            /\ ~ENV_init[t]
            /\ ENV[t] = null_mut
            /\ env[t] = null_mut
            /\ env_seen[t] = {}
            /\ trace[t] = << >>
            /\ ret[t].op \notin {"run_test", "test_thread_env"}

C8_Witness ==
  \E t, u \in Threads :
    /\ panic[t] = "AttachCurrentThread"
    /\ status[t] = JNI_ERR
    /\ op[t] = "run_test"
    /\ VM = JavaVMHandle
    /\ t # u
    /\ ENV_init[u]

(***************************************************************************)
(* C9: a thread calls AttachCurrentThread only after the one VM creation   *)
(* has completed successfully, and calls FindClass only after its own      *)
(* attachment has completed successfully; while one thread creates the VM  *)
(* no other thread has got past test_vm().                                 *)
(***************************************************************************)
C9_AttachAfterCreate ==
  /\ \A t \in Threads :
       /\ (pc[t] = "attach" \/ attach_calls[t] > 0) =>
            /\ VM_once = "complete"
            /\ VM = JavaVMHandle
            /\ vms_created = 1
            /\ vm_seen[t] = {VM}
       /\ (pc[t] = "FindClass" \/ trace[t] # << >>) =>
            /\ ENV_init[t]
            /\ ENV[t] # null_mut
            /\ env[t] = ENV[t]
            /\ attach_calls[t] = 1
  /\ VM_once = "running" =>
       /\ Cardinality({ t \in Threads : pc[t] \in CreatePcs }) = 1
       /\ \A t \in Threads :
            pc[t] \in CreatePcs \cup {"idle", "ENV_with", "VM_deref"}
  /\ VM_once # "running" => \A t \in Threads : pc[t] \notin CreatePcs

C9_Witness ==
  \E t, u \in Threads :
    /\ pc[t] = "create_vm"
    /\ pc[u] = "VM_deref"
    /\ op[u] = "run_test"
    /\ VM_once = "running"

(***************************************************************************)
(* C10: run_test issues FindClass, GetStaticMethodID and                   *)
(* CallStaticVoidMethodA only while the thread's environment has no        *)
(* pending exception; an exception left pending by a failed lookup stays   *)
(* with a thread that has panicked and makes no further call.              *)
(***************************************************************************)
C10_NoNativeCallWhilePending ==
  \A t \in Threads :
    /\ pc[t] \in {"FindClass", "GetStaticMethodID", "CallStaticVoidMethodA"}
         => ~pending[t]
    /\ pending[t] =>
         \/ (pc[t] = "panicked" /\ panic[t] \in LookupPanics)
         \/ (pc[t] \in {"ExceptionCheck", "ExceptionDescribe"} /\ raised[t])

C10_Witness ==
  \E t \in Threads :
    /\ pc[t] = "FindClass"
    /\ ret[t].op = "run_test"
    /\ ret[t].kind = "Err"
    /\ ret[t].message = "MathTests.testDivideByZero() threw a Java Exception"
    /\ ~pending[t]

====
